---------------------------- MODULE Spec2Model ----------------------------
(***************************************************************************)
(* Model of the admission handlers of admission-controller/pods.go:        *)
(* admitPods, mutatePods, mutatePodsSidecar, applyPodPatch,                *)
(* processAnnotations, hasContainer and denySpecificAttachment.            *)
(*                                                                         *)
(* Go strings are modelled as sequences of string pieces, so that          *)
(* strings.Contains, ==, concatenation and the slice patch[:len(patch)-1]  *)
(* are computed on the pieces as the code computes them on bytes.  A patch *)
(* document is the sequence of the pieces the code concatenates: brackets, *)
(* separators and the formatted templates.                                 *)
(***************************************************************************)
EXTENDS Integers, Sequences, FiniteSets

VARIABLES
    sidecarImage,   \* package-level configuration, set once from the flag
    handler,        \* the handler that served the last request
    ar,             \* the AdmissionReview request it was given
    iter,           \* the order in which range iterated pod.Annotations
    resp,           \* what the handler returned
    resubmitted,    \* ar carries the pod of the previous request, patched
    reqs,           \* the requests the server handles concurrently, one goroutine each
    issued          \* the values uuid.New() has returned so far

vars == <<sidecarImage, handler, ar, iter, resp, resubmitted, reqs, issued>>

---------------------------------------------------------------------------
(* Bounds of the model                                                     *)

MaxContainers == 2
MaxInitContainers == 1
MaxAnnotations == 2
MaxRequests == 2

---------------------------------------------------------------------------
(* Strings                                                                 *)

\* strings.Contains(s, substr)
Contains(s, substr) ==
    \E i \in 0..(Len(s) - Len(substr)) : SubSeq(s, i + 1, i + Len(substr)) = substr

\* strings.TrimSpace(s)
RECURSIVE TrimLeft(_)
TrimLeft(s) == IF s # <<>> /\ Head(s) = " " THEN TrimLeft(Tail(s)) ELSE s

RECURSIVE TrimRight(_)
TrimRight(s) ==
    IF s # <<>> /\ s[Len(s)] = " " THEN TrimRight(SubSeq(s, 1, Len(s) - 1)) ELSE s

TrimSpace(s) == TrimRight(TrimLeft(s))

\* all sequences over S of length at most n
SeqUpTo(S, n) == UNION {[1..k -> S] : k \in 0..n}

\* all orders in which range can iterate a map with the key set S
IterationOrders(S) == {p \in [1..Cardinality(S) -> S] : \A i, j \in DOMAIN p : i # j => p[i] # p[j]}

---------------------------------------------------------------------------
(* Literals of pods.go                                                     *)

podResource == [group |-> "", version |-> "v1", resource |-> "pods"]

secretsPrefix == <<"secrets.k8s.aws">>
injectorFlag == <<"secrets.k8s.aws", "/sidecarInjectorWebhook">>
initContainerName == <<"secrets-init-container">>
sidecarContainerName == <<"webhook-added-sidecar">>
disallowName == <<"webhook-disallow">>
attachPodName == "to-be-attached-pod"
attachContainerName == "container1"

unwantedLabelMsg == <<"the pod contains ", "unwanted label", ";", " ">>
waitForeverMsg == <<"the pod response should not be sent", ";", " ">>
unwantedContainerMsg == <<"the pod contains ", "unwanted container name", ";", " ">>
noImageMsg == <<"No image specified by the sidecar-image parameter">>
attachDeniedMsg == <<"attaching to pod 'to-be-attached-pod' is not allowed">>

\* strconv.Itoa(i) and the %d verb, for i >= 0
Digits == <<"0", "1", "2", "3", "4", "5", "6", "7", "8", "9">>

RECURSIVE Itoa(_)
Itoa(i) == IF i < 10 THEN <<Digits[i + 1]>> ELSE Itoa(i \div 10) \o <<Digits[(i % 10) + 1]>>

---------------------------------------------------------------------------
(* Pieces of a patch document.  Every piece is one record of the same      *)
(* shape; t tells which literal or template it is.                         *)

Piece(t) == [t |-> t, path |-> <<>>, name |-> <<>>, image |-> "", key |-> <<>>, loc |-> ""]

LB == Piece("[")
RB == Piece("]")
Comma == Piece(",")

\* initContainersShell is  {"op":"add","path":"/spec/initContainers","value":[%s]},
initContainersShellOpen == [Piece("{value:[") EXCEPT !.path = <<"/spec/initContainers">>]
initContainersShellClose == Piece("]}")
initContainersShell(s) == <<initContainersShellOpen>> \o s \o <<initContainersShellClose, Comma>>

\* initContainerEntry, formatted with (image, number, annotation); it ends with a comma
initContainerEntry(image, n, annotation) ==
    << [Piece("entry") EXCEPT !.image = image,
                              !.name = <<"secrets-init-container", "-">> \o Itoa(n),
                              !.key = annotation],
       Comma >>

secretsMountPointPatch ==
    [Piece("op") EXCEPT !.path = <<"/spec/volumes/-">>, !.name = <<"secret-vol">>]

\* podsSidecarPatch, formatted with the image
podsSidecarPatch(image) ==
    << LB,
       [Piece("op") EXCEPT !.path = <<"/spec/containers/-">>,
                           !.name = <<"webhook-added-sidecar">>, !.image = image],
       RB >>

\* path + strconv.Itoa(i) + value  of applyPodPatch
volMountPatch(i, mountLocation) ==
    [Piece("op") EXCEPT !.path = <<"/spec/containers/">> \o Itoa(i) \o <<"/volumeMounts/-">>,
                        !.name = <<"secret-vol">>, !.loc = mountLocation]

\* fmt.Sprintf(envPatch, i, mountLocation)  of applyPodPatch
envPatch(i, mountLocation) ==
    [Piece("op") EXCEPT !.path = <<"/spec/containers/">> \o Itoa(i) \o <<"/env/-">>,
                        !.name = <<"SEC_LOC">>, !.loc = mountLocation]

---------------------------------------------------------------------------
(* Requests, pods and responses                                            *)

NoLabels == [k \in {} |-> ""]
NoAnnotations == [k \in {} |-> ""]

\* the fields of corev1.Pod the handlers read, and spec.volumes, which the
\* patch appends to
EmptyPod == [labels |-> NoLabels, annotations |-> NoAnnotations,
             containers |-> <<>>, initContainers |-> <<>>, volumes |-> <<>>]

NoOptions == [stdin |-> FALSE, container |-> ""]

\* ar.Request.Object.Raw: the serialized object, of some kind, or bytes that
\* are no object at all
RawPod(pod) == [kind |-> "Pod", pod |-> pod, options |-> NoOptions]
RawOptions(o) == [kind |-> "PodAttachOptions", pod |-> EmptyPod, options |-> o]
RawGarbage == [kind |-> "garbage", pod |-> EmptyPod, options |-> NoOptions]

\* deserializer.Decode(raw, nil, &into) succeeds when raw holds an object of
\* the type decoded into
Decodes(raw, kind) == raw.kind = kind

\* a nil *metav1.Status
NoResult == [status |-> "", message |-> <<>>, code |-> 0]

AdmissionResponse(allowed, patch, patchType, result) ==
    [outcome |-> "response", allowed |-> allowed, patch |-> patch,
     patchType |-> patchType, result |-> result]

\* the handler returned a nil *v1.AdmissionResponse
NilResponse == [AdmissionResponse(FALSE, <<>>, "", NoResult) EXCEPT !.outcome = "nil"]
\* the handler panicked (slice bounds out of range) and returned nothing
Panicked == [AdmissionResponse(FALSE, <<>>, "", NoResult) EXCEPT !.outcome = "panic"]
\* the handler is parked on a channel no one sends to
Blocked == [AdmissionResponse(FALSE, <<>>, "", NoResult) EXCEPT !.outcome = "blocked"]
\* before the first request
NoResponse == [AdmissionResponse(FALSE, <<>>, "", NoResult) EXCEPT !.outcome = "none"]

\* toV1AdmissionResponse(err): a response that carries the error message and
\* does not allow
toV1AdmissionResponse(err) ==
    AdmissionResponse(FALSE, <<>>, "", [status |-> "", message |-> err, code |-> 0])

resourceErr == <<"expect resource to be ", "pods">>
subresourceErr == <<"expect subresource to be ", "attach">>
decodeErr == <<"decode error">>

---------------------------------------------------------------------------
(* admitPods                                                               *)

\* admitContainers with the container name compared for equality
RECURSIVE admitContainersExactName(_, _)
admitContainersExactName(containers, st) ==
    IF containers = <<>> THEN st
    ELSE admitContainersExactName(Tail(containers),
            IF Head(containers).name = disallowName
            THEN [allowed |-> FALSE, msg |-> st.msg \o unwantedContainerMsg]
            ELSE st)

\* the loop over pod.Spec.Containers; st is (reviewResponse.Allowed, msg)
RECURSIVE admitContainers(_, _)
admitContainers(containers, st) ==
    IF containers = <<>> THEN st
    ELSE admitContainers(Tail(containers),
            IF Contains(Head(containers).name, disallowName)
            THEN [allowed |-> FALSE, msg |-> st.msg \o unwantedContainerMsg]
            ELSE st)

\* the checks of the label webhook-e2e-test
admitLabels(labels) ==
    IF "webhook-e2e-test" \in DOMAIN labels
    THEN LET v == labels["webhook-e2e-test"]
             s1 == IF v = "webhook-disallow"
                   THEN [allowed |-> FALSE, msg |-> unwantedLabelMsg, blocked |-> FALSE]
                   ELSE [allowed |-> TRUE, msg |-> <<>>, blocked |-> FALSE]
         IN  IF v = "wait-forever"
             THEN [allowed |-> FALSE, msg |-> s1.msg \o waitForeverMsg, blocked |-> TRUE]
             ELSE s1
    ELSE [allowed |-> TRUE, msg |-> <<>>, blocked |-> FALSE]

admitPods(r) ==
    IF r.resource # podResource THEN toV1AdmissionResponse(resourceErr)
    ELSE IF ~Decodes(r.raw, "Pod") THEN toV1AdmissionResponse(decodeErr)
    ELSE LET pod == r.raw.pod
             l == admitLabels(pod.labels)
             c == admitContainers(pod.containers, [allowed |-> l.allowed, msg |-> l.msg])
         IN  IF l.blocked THEN Blocked
             ELSE AdmissionResponse(c.allowed, <<>>, "",
                     IF ~c.allowed
                     THEN [status |-> "", message |-> TrimSpace(c.msg), code |-> 0]
                     ELSE NoResult)

---------------------------------------------------------------------------
(* denySpecificAttachment                                                  *)

\* denySpecificAttachment with && for || in the test of the attach options
denySpecificAttachmentAnd(r) ==
    IF r.name # attachPodName THEN AdmissionResponse(TRUE, <<>>, "", NoResult)
    ELSE IF r.resource # podResource THEN toV1AdmissionResponse(resourceErr)
    ELSE IF r.subResource # "attach" THEN toV1AdmissionResponse(subresourceErr)
    ELSE IF ~Decodes(r.raw, "PodAttachOptions") THEN toV1AdmissionResponse(decodeErr)
    ELSE LET podAttachOptions == r.raw.options
         IN  IF ~podAttachOptions.stdin /\ podAttachOptions.container # attachContainerName
             THEN AdmissionResponse(TRUE, <<>>, "", NoResult)
             ELSE AdmissionResponse(FALSE, <<>>, "",
                     [status |-> "", message |-> attachDeniedMsg, code |-> 0])

denySpecificAttachment(r) ==
    IF r.name # attachPodName THEN AdmissionResponse(TRUE, <<>>, "", NoResult)
    ELSE IF r.resource # podResource THEN toV1AdmissionResponse(resourceErr)
    ELSE IF r.subResource # "attach" THEN toV1AdmissionResponse(subresourceErr)
    ELSE IF ~Decodes(r.raw, "PodAttachOptions") THEN toV1AdmissionResponse(decodeErr)
    ELSE LET podAttachOptions == r.raw.options
         IN  IF ~podAttachOptions.stdin \/ podAttachOptions.container # attachContainerName
             THEN AdmissionResponse(TRUE, <<>>, "", NoResult)
             ELSE AdmissionResponse(FALSE, <<>>, "",
                     [status |-> "", message |-> attachDeniedMsg, code |-> 0])

---------------------------------------------------------------------------
(* processAnnotations                                                      *)

\* annotationEntries without the continue that skips the injector flag
RECURSIVE annotationEntriesNoSkip(_, _, _)
annotationEntriesNoSkip(order, initCount, patch) ==
    IF order = <<>> THEN patch
    ELSE LET annotation == Head(order)
         IN  IF Contains(annotation, secretsPrefix)
             THEN annotationEntriesNoSkip(Tail(order), initCount + 1,
                      patch \o initContainerEntry(sidecarImage, initCount, annotation))
             ELSE annotationEntriesNoSkip(Tail(order), initCount, patch)

\* annotationEntries without initCount++
RECURSIVE annotationEntriesNoIncrement(_, _, _)
annotationEntriesNoIncrement(order, initCount, patch) ==
    IF order = <<>> THEN patch
    ELSE LET annotation == Head(order)
         IN  IF Contains(annotation, secretsPrefix) /\ annotation # injectorFlag
             THEN annotationEntriesNoIncrement(Tail(order), initCount,
                      patch \o initContainerEntry(sidecarImage, initCount, annotation))
             ELSE annotationEntriesNoIncrement(Tail(order), initCount, patch)

\* the loop over pod.ObjectMeta.Annotations, in the order range yields them
RECURSIVE annotationEntries(_, _, _)
annotationEntries(order, initCount, patch) ==
    IF order = <<>> THEN patch
    ELSE LET annotation == Head(order)
         IN  IF Contains(annotation, secretsPrefix) /\ annotation # injectorFlag
             THEN annotationEntries(Tail(order), initCount + 1,
                      patch \o initContainerEntry(sidecarImage, initCount, annotation))
             ELSE annotationEntries(Tail(order), initCount, patch)

\* patch[:len(patch)-1] panics on the empty string
processAnnotations(order) ==
    LET entries == annotationEntries(order, 0, <<>>)
    IN  IF Len(entries) = 0
        THEN [panic |-> TRUE, patch |-> <<>>]
        ELSE [panic |-> FALSE,
              patch |-> <<LB>>
                        \o initContainersShell(SubSeq(entries, 1, Len(entries) - 1))
                        \o <<secretsMountPointPatch>>]

---------------------------------------------------------------------------
(* mutatePods, mutatePodsSidecar, applyPodPatch                            *)

hasContainer(containers, containerName) ==
    \E i \in DOMAIN containers : containers[i].name = containerName

\* the closure of mutatePods without the continue that skips the injector flag
mutatePodsShouldPatchPodNoSkip(pod) ==
    LET secretFound == \E annotation \in DOMAIN pod.annotations :
                           Contains(annotation, secretsPrefix)
    IN  IF ~secretFound THEN FALSE
        ELSE ~hasContainer(pod.initContainers, initContainerName)

\* the closure mutatePods passes to applyPodPatch
mutatePodsShouldPatchPod(pod) ==
    LET secretFound == \E annotation \in DOMAIN pod.annotations :
                           Contains(annotation, secretsPrefix) /\ annotation # injectorFlag
    IN  IF ~secretFound THEN FALSE
        ELSE ~hasContainer(pod.initContainers, initContainerName)

\* the closure mutatePodsSidecar passes to applyPodPatch
sidecarShouldPatchPod(pod) == ~hasContainer(pod.containers, sidecarContainerName)

shouldPatchPod(strategy, pod) ==
    IF strategy = "mutatePods" THEN mutatePodsShouldPatchPod(pod)
    ELSE sidecarShouldPatchPod(pod)

\* containerPatches with every pass assigning as the first pass does
RECURSIVE containerPatchesOverwrite(_, _, _, _)
containerPatchesOverwrite(i, n, mountLocation, st) ==
    IF i >= n THEN st
    ELSE containerPatchesOverwrite(i + 1, n, mountLocation,
            [volMounts |-> <<volMountPatch(i, mountLocation)>>,
             envPatches |-> <<envPatch(i, mountLocation)>>])

\* the loop over pod.Spec.Containers; st is (volMounts, envPatches)
RECURSIVE containerPatches(_, _, _, _)
containerPatches(i, n, mountLocation, st) ==
    IF i >= n THEN st
    ELSE containerPatches(i + 1, n, mountLocation,
            IF i = 0
            THEN [volMounts |-> <<volMountPatch(i, mountLocation)>>,
                  envPatches |-> <<envPatch(i, mountLocation)>>]
            ELSE [volMounts |-> st.volMounts \o <<Comma, volMountPatch(i, mountLocation)>>,
                  envPatches |-> st.envPatches \o <<Comma, envPatch(i, mountLocation)>>])

\* patch1 is a parameter the body never reads
applyPodPatch(r, strategy, patch1, order, mountLocation) ==
    IF r.resource # podResource THEN NilResponse
    ELSE IF ~Decodes(r.raw, "Pod") THEN toV1AdmissionResponse(decodeErr)
    ELSE LET pod == r.raw.pod
         IN  IF shouldPatchPod(strategy, pod)
             THEN LET pa == processAnnotations(order)
                      c == containerPatches(0, Len(pod.containers), mountLocation,
                                            [volMounts |-> <<>>, envPatches |-> <<>>])
                  IN  IF pa.panic THEN Panicked
                      ELSE AdmissionResponse(TRUE,
                              pa.patch \o <<Comma>> \o c.volMounts \o <<Comma>>
                                       \o c.envPatches \o <<RB>>,
                              "JSONPatch", NoResult)
             ELSE AdmissionResponse(TRUE, <<>>, "", NoResult)

mutatePods(r, order, mountLocation) ==
    applyPodPatch(r, "mutatePods", <<>>, order, mountLocation)

\* mutatePodsSidecar without the check of sidecarImage
mutatePodsSidecarUnchecked(r, order, mountLocation) ==
    applyPodPatch(r, "mutatePodsSidecar", podsSidecarPatch(sidecarImage),
                  order, mountLocation)

mutatePodsSidecar(r, order, mountLocation) ==
    IF sidecarImage = ""
    THEN AdmissionResponse(FALSE, <<>>, "",
            [status |-> "Failure", message |-> noImageMsg, code |-> 500])
    ELSE applyPodPatch(r, "mutatePodsSidecar", podsSidecarPatch(sidecarImage),
                       order, mountLocation)

---------------------------------------------------------------------------
(* The older copy of the handlers kept in the repository: mutatePods and   *)
(* applyPodPatch with the mount path fixed to "/tmp/" and no env patch.    *)
(* Its processAnnotations joins the same entries and slices the same way.  *)

\* value of the older applyPodPatch: mountPath is "/tmp/", with nothing after it
legacyVolMountPatch(i) ==
    [Piece("op") EXCEPT !.path = <<"/spec/containers/">> \o Itoa(i) \o <<"/volumeMounts/-">>,
                        !.name = <<"secret-vol">>, !.loc = ""]

\* the loop over pod.Spec.Containers of the older applyPodPatch
RECURSIVE legacyVolMounts(_, _, _)
legacyVolMounts(i, n, volMounts) ==
    IF i >= n THEN volMounts
    ELSE legacyVolMounts(i + 1, n,
            IF i = 0 THEN <<legacyVolMountPatch(i)>>
            ELSE volMounts \o <<Comma, legacyVolMountPatch(i)>>)

\* the closure the older mutatePods passes to applyPodPatch
legacyShouldPatchPod(pod) ==
    LET found == \E annotation \in DOMAIN pod.annotations :
                     Contains(annotation, secretsPrefix) /\ annotation # injectorFlag
        arnOk == <<"secrets.k8s.aws", "/secret-arn">> \in DOMAIN pod.annotations
    IN  IF ~found THEN FALSE
        ELSE IF ~arnOk THEN FALSE
        ELSE ~hasContainer(pod.initContainers, initContainerName)

legacyApplyPodPatch(r, order) ==
    IF r.resource # podResource THEN NilResponse
    ELSE IF ~Decodes(r.raw, "Pod") THEN toV1AdmissionResponse(decodeErr)
    ELSE LET pod == r.raw.pod
         IN  IF legacyShouldPatchPod(pod)
             THEN LET pa == processAnnotations(order)
                  IN  IF pa.panic THEN Panicked
                      ELSE AdmissionResponse(TRUE,
                              pa.patch \o <<Comma>>
                                       \o legacyVolMounts(0, Len(pod.containers), <<>>)
                                       \o <<RB>>,
                              "JSONPatch", NoResult)
             ELSE AdmissionResponse(TRUE, <<>>, "", NoResult)

legacyMutatePods(r, order) == legacyApplyPodPatch(r, order)

---------------------------------------------------------------------------
(* What the API server does with a returned patch: it parses the bytes as  *)
(* a JSON array of operations and applies them in order.                   *)

\* a JSON parser over the pieces; st is what the parser expects next
RECURSIVE ParseElements(_, _)
ParseElements(s, st) ==
    IF s = <<>> THEN st = "sep"
    ELSE LET t == Head(s).t
             rest == Tail(s)
         IN  CASE st = "element" ->
                     IF t = "op" THEN ParseElements(rest, "sep")
                     ELSE IF t = "{value:[" THEN ParseElements(rest, "first entry")
                     ELSE FALSE
               [] st = "sep" -> t = "," /\ ParseElements(rest, "element")
               [] st = "first entry" ->
                     IF t = "entry" THEN ParseElements(rest, "entry sep")
                     ELSE IF t = "]}" THEN ParseElements(rest, "sep")
                     ELSE FALSE
               [] st = "entry" -> t = "entry" /\ ParseElements(rest, "entry sep")
               [] st = "entry sep" ->
                     IF t = "," THEN ParseElements(rest, "entry")
                     ELSE IF t = "]}" THEN ParseElements(rest, "sep")
                     ELSE FALSE
               [] OTHER -> FALSE

ParsesAsJSONArray(patch) ==
    /\ Len(patch) >= 2
    /\ patch[1] = LB
    /\ patch[Len(patch)] = RB
    /\ LET inner == SubSeq(patch, 2, Len(patch) - 1)
       IN  inner = <<>> \/ ParseElements(inner, "element")

\* the add operations of a parsed patch, applied in order to the pod; an
\* index past the last container makes the patch fail
RECURSIVE ApplyPieces(_, _)
ApplyPieces(s, st) ==
    IF s = <<>> THEN st
    ELSE LET h == Head(s)
             pod == st.pod
             n == Len(pod.containers)
             inRange == \E i \in 0..(n - 1) :
                            h.path \in {<<"/spec/containers/">> \o Itoa(i) \o <<"/volumeMounts/-">>,
                                        <<"/spec/containers/">> \o Itoa(i) \o <<"/env/-">>}
             next ==
                 CASE h.t = "{value:[" ->
                        [st EXCEPT !.pod.initContainers = <<>>]
                   [] h.t = "entry" ->
                        [st EXCEPT !.pod.initContainers = Append(@, [name |-> h.name])]
                   [] h.t = "op" /\ h.path = <<"/spec/volumes/-">> ->
                        [st EXCEPT !.pod.volumes = Append(@, h.name)]
                   [] h.t = "op" /\ h.path = <<"/spec/containers/-">> ->
                        [st EXCEPT !.pod.containers = Append(@, [name |-> h.name])]
                   [] h.t = "op" /\ h.path \notin {<<"/spec/volumes/-">>, <<"/spec/containers/-">>} ->
                        [st EXCEPT !.ok = @ /\ inRange]
                   [] OTHER -> st
         IN  ApplyPieces(Tail(s), next)

ApplyPatch(pod, patch) == ApplyPieces(patch, [ok |-> ParsesAsJSONArray(patch), pod |-> pod])

---------------------------------------------------------------------------
(* Inputs                                                                  *)

Images == {"", "sidecar:latest"}

Resources == {podResource, [group |-> "apps", version |-> "v1", resource |-> "deployments"]}

\* what uuid.New() can return
UUIDs == {"6ba7b810", "6ba7b811"}

LabelMaps ==
    {NoLabels} \cup {[k \in {"webhook-e2e-test"} |-> v] :
                        v \in {"webhook-disallow", "wait-forever", "allow"}}

AnnotationKeys ==
    { <<"secrets.k8s.aws", "/secret-arn">>,
      <<"secrets.k8s.aws", "/db">>,
      <<"corp.", "secrets.k8s.aws", "/api">>,
      injectorFlag,
      <<"team">> }

AnnotationMaps ==
    {[k \in S |-> "arn:aws:secretsmanager"] :
        S \in {T \in SUBSET AnnotationKeys : Cardinality(T) <= MaxAnnotations}}

Containers(names) == {[name |-> n] : n \in names}

AdmitContainerNames ==
    {<<"app">>, disallowName, <<"my-", "webhook-disallow", "-sidecar">>}

MutateContainerNames == {<<"app">>, sidecarContainerName}

InitContainerNames == {initContainerName, <<"secrets-init-container", "-", "0">>}

AdmitPodInputs ==
    {[EmptyPod EXCEPT !.labels = l, !.containers = c] :
        l \in LabelMaps, c \in SeqUpTo(Containers(AdmitContainerNames), MaxContainers)}

MutatePodInputs ==
    {[EmptyPod EXCEPT !.annotations = a, !.containers = c, !.initContainers = ic] :
        a \in AnnotationMaps,
        c \in SeqUpTo(Containers(MutateContainerNames), MaxContainers),
        ic \in SeqUpTo(Containers(InitContainerNames), MaxInitContainers)}

PodRequests(pods) ==
    [name : {"web-0"}, resource : Resources, subResource : {""},
     raw : {RawGarbage} \cup {RawPod(pod) : pod \in pods}]

AttachRequests ==
    [name : {attachPodName, "web-0"}, resource : Resources,
     subResource : {"attach", "exec"},
     raw : {RawGarbage} \cup {RawOptions(o) :
              o \in [stdin : BOOLEAN, container : {attachContainerName, "container2"}]}]

NoRequest == [name |-> "", resource |-> podResource, subResource |-> "", raw |-> RawGarbage]

---------------------------------------------------------------------------
(* The state machine: one action per handler.  A request is taken when no  *)
(* request is being served; everything a request built is discarded once   *)
(* its response is handed back.                                            *)

Idle == handler = "none"

\* the goroutines of the server, and one that has no request yet
Slots == 1..MaxRequests
FreeSlot == [state |-> "free", handler |-> "none", ar |-> NoRequest, resp |-> NoResponse]

Init ==
    /\ sidecarImage \in Images
    /\ handler = "none"
    /\ ar = NoRequest
    /\ iter = <<>>
    /\ resp = NoResponse
    /\ resubmitted = FALSE
    /\ reqs = [i \in Slots |-> FreeSlot]
    /\ issued = {}

\* what a mutating handler leaves behind: iter records the iteration order
\* when processAnnotations ran
Mutated(h, r, order, response, again) ==
    /\ handler' = h
    /\ ar' = r
    /\ resp' = response
    /\ iter' = IF response.outcome = "panic" \/ response.patch # <<>> THEN order ELSE <<>>
    /\ resubmitted' = again
    /\ UNCHANGED <<sidecarImage, reqs, issued>>

AdmitPods ==
    \E r \in PodRequests(AdmitPodInputs) :
        /\ Idle
        /\ handler' = "admitPods"
        /\ ar' = r
        /\ resp' = admitPods(r)
        /\ iter' = <<>>
        /\ resubmitted' = FALSE
        /\ UNCHANGED <<sidecarImage, reqs, issued>>

DenySpecificAttachment ==
    \E r \in AttachRequests :
        /\ Idle
        /\ handler' = "denySpecificAttachment"
        /\ ar' = r
        /\ resp' = denySpecificAttachment(r)
        /\ iter' = <<>>
        /\ resubmitted' = FALSE
        /\ UNCHANGED <<sidecarImage, reqs, issued>>

MutatePods ==
    /\ Idle
    /\ \E r \in PodRequests(MutatePodInputs) :
        \E order \in IterationOrders(DOMAIN r.raw.pod.annotations), u \in UUIDs :
            Mutated("mutatePods", r, order, mutatePods(r, order, u), FALSE)

MutatePodsSidecar ==
    /\ Idle
    /\ \E r \in PodRequests(MutatePodInputs) :
        \E order \in IterationOrders(DOMAIN r.raw.pod.annotations), u \in UUIDs :
            Mutated("mutatePodsSidecar", r, order, mutatePodsSidecar(r, order, u), FALSE)

\* the pod of the last request, with the returned patch applied to it, is
\* submitted again to the same mutating handler
Resubmit ==
    /\ handler \in {"mutatePods", "mutatePodsSidecar"}
    /\ ~resubmitted
    /\ resp.outcome = "response"
    /\ resp.patch # <<>>
    /\ LET applied == ApplyPatch(ar.raw.pod, resp.patch)
           r == [ar EXCEPT !.raw = RawPod(applied.pod)]
       IN  /\ applied.ok
           /\ \E order \in IterationOrders(DOMAIN applied.pod.annotations), u \in UUIDs :
                 Mutated(handler, r, order,
                         IF handler = "mutatePods" THEN mutatePods(r, order, u)
                         ELSE mutatePodsSidecar(r, order, u),
                         TRUE)

\* the handler has returned (or panicked) and the request is over; a handler
\* parked forever never gets here
Respond ==
    /\ resp.outcome \in {"response", "nil", "panic"}
    /\ handler' = "none"
    /\ ar' = NoRequest
    /\ iter' = <<>>
    /\ resp' = NoResponse
    /\ resubmitted' = FALSE
    /\ UNCHANGED <<sidecarImage, reqs, issued>>

Next ==
    \/ Respond
    \/ AdmitPods
    \/ DenySpecificAttachment
    \/ MutatePods
    \/ MutatePodsSidecar
    \/ Resubmit

Spec == Init /\ [][Next]_vars

---------------------------------------------------------------------------
(* The server: every request runs its handler on a goroutine of its own.   *)
(* A handler reads the request and sidecarImage and nothing else; the only *)
(* thing calls share is the generator behind uuid.New(), whose values are  *)
(* taken to be unique.                                                     *)

UUIDPool == UUIDs \cup {"6ba7b812", "6ba7b813"}

PodRequest(pod) ==
    [name |-> "web-0", resource |-> podResource, subResource |-> "", raw |-> RawPod(pod)]

AppPod == [EmptyPod EXCEPT !.containers = <<[name |-> <<"app">>]>>]

WaitForeverPod ==
    [AppPod EXCEPT !.labels = [k \in {"webhook-e2e-test"} |-> "wait-forever"]]

SecretPod ==
    [EmptyPod EXCEPT
        !.annotations = [k \in {<<"secrets.k8s.aws", "/secret-arn">>} |-> "arn:aws:secretsmanager"],
        !.containers = <<[name |-> <<"app">>], [name |-> <<"proxy">>]>>]

\* the calls the server is given
ServerCalls ==
    { [handler |-> "admitPods", ar |-> PodRequest(WaitForeverPod)],
      [handler |-> "admitPods", ar |-> PodRequest(AppPod)],
      [handler |-> "mutatePods", ar |-> PodRequest(SecretPod)],
      [handler |-> "mutatePods",
       ar |-> [PodRequest(SecretPod) EXCEPT !.resource = [group |-> "apps", version |-> "v1",
                                                          resource |-> "deployments"]]],
      [handler |-> "legacyMutatePods", ar |-> PodRequest(SecretPod)],
      [handler |-> "mutatePodsSidecar", ar |-> PodRequest(AppPod)],
      [handler |-> "denySpecificAttachment",
       ar |-> [name |-> attachPodName, resource |-> podResource, subResource |-> "attach",
               raw |-> RawOptions([stdin |-> TRUE, container |-> attachContainerName])]] }

\* the handler of a call, run to its end
Serve(call, order, u) ==
    CASE call.handler = "admitPods" -> admitPods(call.ar)
      [] call.handler = "denySpecificAttachment" -> denySpecificAttachment(call.ar)
      [] call.handler = "mutatePods" -> mutatePods(call.ar, order, u)
      [] call.handler = "mutatePodsSidecar" -> mutatePodsSidecar(call.ar, order, u)
      [] call.handler = "legacyMutatePods" -> legacyMutatePods(call.ar, order)

\* a request arrives and is given a goroutine
Arrive(i) ==
    /\ reqs[i].state = "free"
    /\ \E call \in ServerCalls :
          reqs' = [reqs EXCEPT ![i] = [state |-> "running", handler |-> call.handler,
                                       ar |-> call.ar, resp |-> NoResponse]]
    /\ UNCHANGED <<sidecarImage, handler, ar, iter, resp, resubmitted, issued>>

\* the handler of request i runs: it returns, panics, or parks forever on the
\* channel of admitPods.  uuid.New() is called once the patch of
\* processAnnotations is there, by applyPodPatch of pods.go only.
Run(i) ==
    /\ reqs[i].state = "running"
    /\ \E order \in IterationOrders(DOMAIN reqs[i].ar.raw.pod.annotations),
          u \in UUIDPool \ issued :
          LET response == Serve(reqs[i], order, u)
              drew == /\ reqs[i].handler \in {"mutatePods", "mutatePodsSidecar"}
                      /\ response.outcome = "response"
                      /\ response.patch # <<>>
          IN  /\ reqs' = [reqs EXCEPT ![i].state = IF response.outcome = "blocked"
                                                   THEN "suspended" ELSE "done",
                                      ![i].resp = response]
              /\ issued' = IF drew THEN issued \cup {u} ELSE issued
    /\ UNCHANGED <<sidecarImage, handler, ar, iter, resp, resubmitted>>

ServerNext == \E i \in Slots : Arrive(i) \/ Run(i)

SpecServer == Init /\ [][ServerNext]_vars

\* the Go scheduler runs every runnable goroutine
SpecServerFair == SpecServer /\ \A i \in Slots : WF_vars(Run(i))

---------------------------------------------------------------------------
(* Vocabulary of the properties                                            *)

IsMutation == handler \in {"mutatePods", "mutatePodsSidecar"}

\* the request names the pod resource and carries a pod that decodes
PodDecoded == ar.resource = podResource /\ ar.raw.kind = "Pod"

\* the handler returned a response that carries a patch
Patched == IsMutation /\ resp.outcome = "response" /\ resp.patch # <<>>

IsSecretKey(annotation) == Contains(annotation, secretsPrefix) /\ annotation # injectorFlag

IsEntry(p) == p.t = "entry"

IsVolumeMount(p) ==
    p.t = "op" /\ p.path # <<>> /\ p.path[Len(p.path)] = "/volumeMounts/-"

---------------------------------------------------------------------------
(* C1: when mutatePods is called again on the pod obtained by applying the *)
(* patch it returned, it answers allowed=true with an empty patch (no      *)
(* second injection).                                                      *)
C1_SecondCallInjectsNothing ==
    (handler = "mutatePods" /\ resubmitted) =>
        (resp.outcome = "response" /\ resp.allowed /\ resp.patch = <<>>)

(* C2: every patch a mutating handler returns, for any number of           *)
(* containers (zero included), parses as a JSON array of operations: the   *)
(* brackets balance, one separator stands between consecutive operations,  *)
(* and there is no empty element and no dangling separator.                *)
C2_PatchParsesAsJSONArray == Patched => ParsesAsJSONArray(resp.patch)

(* C3: for a decodable pod, under either strategy, the mutating handler    *)
(* finishes by returning an AdmissionResponse and never crashes.           *)
C3_MutationAlwaysResponds ==
    (IsMutation /\ PodDecoded) => resp.outcome = "response"

(* C4: a request whose resource is not the core-v1 Pod resource gets from  *)
(* every handler a structured response with allowed=false and an error     *)
(* message, never a nil response.                                          *)
C4_ResourceMismatchIsStructured ==
    (handler # "none" /\ ar.resource # podResource) =>
        (resp.outcome = "response" /\ ~resp.allowed /\ resp.result.message # <<>>)

(* C5 (as stated): denySpecificAttachment answers allowed=false only for   *)
(* name = to-be-attached-pod, sub-resource = attach, container =           *)
(* container1 and stdin = true; every other combination of those four      *)
(* fields is allowed.                                                      *)
ExactAttachment ==
    /\ ar.name = attachPodName
    /\ ar.subResource = "attach"
    /\ ar.raw.options.container = attachContainerName
    /\ ar.raw.options.stdin

C5_DeniesOnlyExactCombination ==
    (handler = "denySpecificAttachment" /\ ar.resource = podResource
        /\ ar.raw.kind = "PodAttachOptions") =>
        (resp.outcome = "response" /\ (~resp.allowed <=> ExactAttachment))

(* C5 (amended): the denial "attaching to pod ... is not allowed" is given  *)
(* only for the exact combination, on the pod resource with attach options *)
(* that decode; a request named to-be-attached-pod whose resource is not   *)
(* pods, whose sub-resource is not attach or whose payload does not decode *)
(* gets an error response with allowed=false; every other request is       *)
(* allowed.                                                                *)
AttachError ==
    /\ ar.name = attachPodName
    /\ \/ ar.resource # podResource
       \/ ar.subResource # "attach"
       \/ ar.raw.kind # "PodAttachOptions"

AttachDenied ==
    /\ ExactAttachment
    /\ ar.resource = podResource
    /\ ar.raw.kind = "PodAttachOptions"

C5_AttachDecision ==
    handler = "denySpecificAttachment" =>
        /\ resp.outcome = "response"
        /\ ~resp.allowed <=> (AttachDenied \/ AttachError)
        /\ resp.result.message = attachDeniedMsg <=> AttachDenied
        /\ AttachError => resp.result.message \in {resourceErr, subresourceErr, decodeErr}

C5_Witness ==
    handler = "denySpecificAttachment" /\ AttachDenied /\ ~resp.allowed

(* C6: for a decodable pod whose label webhook-e2e-test is not             *)
(* wait-forever, admitPods answers allowed=false exactly when the label is *)
(* webhook-disallow or some container name contains webhook-disallow; the  *)
(* message contains "unwanted label" exactly when the label rule is        *)
(* violated and "unwanted container name" exactly when the container rule  *)
(* is; a pod violating neither rule is allowed.                            *)
LabelIs(v) ==
    /\ "webhook-e2e-test" \in DOMAIN ar.raw.pod.labels
    /\ ar.raw.pod.labels["webhook-e2e-test"] = v

ContainerRuleViolated ==
    \E c \in Containers(AdmitContainerNames) :
        /\ \E i \in DOMAIN ar.raw.pod.containers : ar.raw.pod.containers[i] = c
        /\ c.name \in {disallowName, <<"my-", "webhook-disallow", "-sidecar">>}

HasSidecar ==
    \E i \in DOMAIN ar.raw.pod.containers :
        ar.raw.pod.containers[i].name = <<"webhook-added-sidecar">>

C7_SidecarPatchIsStaticFragment ==
    (handler = "mutatePodsSidecar" /\ sidecarImage # "" /\ PodDecoded) =>
        /\ resp.outcome = "response"
        /\ resp.patch = IF HasSidecar THEN <<>> ELSE podsSidecarPatch(sidecarImage)

(* C8: mutatePodsSidecar with an empty sidecar image answers allowed=false *)
(* with status code 500 and an explanatory message for every request,      *)
(* whatever its resource and payload (decodable or not).                   *)
C8_NoImageFailsClosed ==
    (handler = "mutatePodsSidecar" /\ sidecarImage = "") =>
        /\ resp.outcome = "response"
        /\ ~resp.allowed
        /\ resp.result.code = 500
        /\ resp.result.message = <<"No image specified by the sidecar-image parameter">>
        /\ resp.patch = <<>>

C8_Witness ==
    /\ handler = "mutatePodsSidecar"
    /\ sidecarImage = ""
    /\ ar.resource # podResource
    /\ ar.raw.kind = "garbage"
    /\ resp.result.code = 500

(* C9: for a patched pod with n >= 1 containers the patch holds exactly n  *)
(* add operations on volumeMounts, the i-th at                             *)
(* /spec/containers/<i>/volumeMounts/- for i = 0..n-1 in spec order, each  *)
(* mounting secret-vol, all with the one mount path generated in that call.*)
C9_OneMountPerContainer ==
    (Patched /\ Len(ar.raw.pod.containers) >= 1) =>
        LET mounts == SelectSeq(resp.patch, IsVolumeMount)
        IN  /\ Len(mounts) = Len(ar.raw.pod.containers)
            /\ \A i \in DOMAIN mounts :
                  /\ mounts[i].path =
                        <<"/spec/containers/">> \o Itoa(i - 1) \o <<"/volumeMounts/-">>
                  /\ mounts[i].name = <<"secret-vol">>
                  /\ mounts[i].loc = mounts[1].loc
                  /\ mounts[i].loc \in UUIDs

C9_Witness ==
    /\ Patched
    /\ Len(ar.raw.pod.containers) = 2
    /\ Len(SelectSeq(resp.patch, IsVolumeMount)) = 2

(* C10: in every patch the k injected init containers are named            *)
(* secrets-init-container-0 .. secrets-init-container-(k-1), numbered from *)
(* 0 in the order the annotations are scanned, without a gap, so no two    *)
(* init containers of one patch share a name.                              *)
C10_InitContainersNumberedInScanOrder ==
    Patched =>
        LET entries == SelectSeq(resp.patch, IsEntry)
            keys == SelectSeq(iter, IsSecretKey)
        IN  /\ Len(entries) = Len(keys)
            /\ \A i \in DOMAIN entries :
                  /\ entries[i].name = <<"secrets-init-container", "-">> \o Itoa(i - 1)
                  /\ entries[i].key = keys[i]
            /\ \A i, j \in DOMAIN entries : i # j => entries[i].name # entries[j].name

C10_Witness ==
    /\ Patched
    /\ Len(SelectSeq(resp.patch, IsEntry)) = 2
    /\ Len(SelectSeq(iter, IsSecretKey)) = 2

(* C11: over any sequence or interleaving of admission requests that are   *)
(* patched, no two distinct requests receive the same mount path, two      *)
(* requests carrying the identical pod included.                           *)
SlotPatched(i) ==
    /\ reqs[i].state = "done"
    /\ reqs[i].resp.outcome = "response"
    /\ reqs[i].resp.patch # <<>>

\* the mount paths a response hands to the containers of its pod
MountPaths(response) ==
    LET mounts == SelectSeq(response.patch, IsVolumeMount)
    IN  {mounts[k].loc : k \in DOMAIN mounts}

C11_MountPathsNeverShared ==
    \A i, j \in Slots :
        (i # j /\ SlotPatched(i) /\ SlotPatched(j)) =>
            MountPaths(reqs[i].resp) \cap MountPaths(reqs[j].resp) = {}

(* C12: in any interleaving of concurrently handled requests, an admitPods *)
(* call for a pod labelled webhook-e2e-test=wait-forever never returns a   *)
(* response, and it blocks only its own request: every other concurrent    *)
(* request, of any handler, still gets its response.  Stated on the states *)
(* a run passes through: the suspended call is never done, and a call that *)
(* is done beside a suspended one holds a response.                        *)
WaitsForever(i) ==
    /\ reqs[i].handler = "admitPods"
    /\ reqs[i].ar.resource = podResource
    /\ reqs[i].ar.raw.kind = "Pod"
    /\ "webhook-e2e-test" \in DOMAIN reqs[i].ar.raw.pod.labels
    /\ reqs[i].ar.raw.pod.labels["webhook-e2e-test"] = "wait-forever"

C12_SuspensionBlocksOnlyItself ==
    \A i \in Slots :
        /\ WaitsForever(i) => (reqs[i].state # "done" /\ reqs[i].resp.outcome # "response")
        /\ \A j \in Slots \ {i} :
              (reqs[i].state = "suspended" /\ reqs[j].state = "done") =>
                  reqs[j].resp.outcome = "response"

(* C12, the part that holds: beside a suspended call every other call that *)
(* has started runs to the end of its handler (a response, or the nil and  *)
(* the panic of applyPodPatch), and the suspended call stays suspended.    *)
C12_OthersFinish ==
    \A j \in Slots :
        (reqs[j].state = "running" /\ ~WaitsForever(j)) ~> (reqs[j].state = "done")

C12_SuspendedStays ==
    [][\A i \in Slots : reqs[i].state = "suspended" => reqs'[i] = reqs[i]]_vars

(* C13: for mutatePods, a pod whose only secrets.k8s.aws annotation is the *)
(* toggle key secrets.k8s.aws/sidecarInjectorWebhook, or that has no such  *)
(* annotation, is not patched: the response is allowed=true with no patch  *)
(* and no patchType, whatever its containers and init containers are.      *)
OnlyToggleOrNone ==
    \A k \in DOMAIN ar.raw.pod.annotations :
        k \in {<<"secrets.k8s.aws", "/secret-arn">>, <<"secrets.k8s.aws", "/db">>,
               <<"corp.", "secrets.k8s.aws", "/api">>,
               <<"secrets.k8s.aws", "/sidecarInjectorWebhook">>}
            => k = <<"secrets.k8s.aws", "/sidecarInjectorWebhook">>

C13_ToggleOnlyIsNotPatched ==
    (handler = "mutatePods" /\ PodDecoded /\ OnlyToggleOrNone) =>
        /\ resp.outcome = "response"
        /\ resp.allowed
        /\ resp.patch = <<>>
        /\ resp.patchType = ""
        /\ resp.result = NoResult

C13_Witness ==
    /\ handler = "mutatePods"
    /\ PodDecoded
    /\ DOMAIN ar.raw.pod.annotations = {<<"secrets.k8s.aws", "/sidecarInjectorWebhook">>}
    /\ ar.raw.pod.containers # <<>>
    /\ ar.raw.pod.initContainers # <<>>
    /\ resp.allowed
    /\ resp.patch = <<>>

(* C14: in every patch built by mutatePods the init containers correspond  *)
(* one-to-one to the pod's annotation keys that contain secrets.k8s.aws    *)
(* other than the toggle key: each such key is the field-reference target  *)
(* of exactly one init container, the toggle key of none; the key set is   *)
(* the one shouldPatchPod scanned, so the builder never runs on an empty   *)
(* set; and the patch adds the volume secret-vol exactly once.             *)
SecretKeysOfPod == {k \in DOMAIN ar.raw.pod.annotations : IsSecretKey(k)}

IsSecretVolume(p) ==
    p.t = "op" /\ p.path = <<"/spec/volumes/-">> /\ p.name = <<"secret-vol">>

C14_InitContainersMatchSecretKeys ==
    handler = "mutatePods" =>
        /\ resp.outcome # "panic"
        /\ Patched =>
              LET entries == SelectSeq(resp.patch, IsEntry)
              IN  /\ SecretKeysOfPod # {}
                  /\ \A k \in SecretKeysOfPod :
                        Cardinality({i \in DOMAIN entries : entries[i].key = k}) = 1
                  /\ \A i \in DOMAIN entries :
                        /\ entries[i].key \in SecretKeysOfPod
                        /\ entries[i].key # <<"secrets.k8s.aws", "/sidecarInjectorWebhook">>
                  /\ Len(SelectSeq(resp.patch, IsSecretVolume)) = 1

C14_Witness ==
    /\ handler = "mutatePods"
    /\ Patched
    /\ <<"secrets.k8s.aws", "/sidecarInjectorWebhook">> \in DOMAIN ar.raw.pod.annotations
    /\ Cardinality(SecretKeysOfPod) = 1
    /\ Len(SelectSeq(resp.patch, IsEntry)) = 1

=============================================================================
